---------------------------- MODULE Spec2Model ----------------------------
(***************************************************************************)
(* Model of src/src/index.ts: the snowflake bit layout, the stateful       *)
(* SnowflakeGenerator, generateFrontendSnowflakeId, extractIdComponents    *)
(* and isValidSnowflakeId.                                                 *)
(*                                                                         *)
(* The source computes on JavaScript bigint values (arbitrary precision,   *)
(* two's complement for the bitwise operators).  TLC integers are 32 bits  *)
(* wide, so a bigint is modelled as three limbs <<l0, l1, l2>> of value    *)
(* l0 + l1 * Radix + l2 * Radix^2 with l0, l1 in 0 .. Radix-1 and l2 any   *)
(* integer (the sign lives in l2).  TLC reports an overflow of l2 as an    *)
(* error, so no value is ever silently truncated.                          *)
(***************************************************************************)
EXTENDS Integers, Sequences, FiniteSets, TLC

---------------------------------------------------------------------------
(* bigint arithmetic *)

LimbBits == 23

Radix == 2^LimbBits

\* carry propagation: the limbs of l0 + l1 * Radix + l2 * Radix^2
Norm(l0, l1, l2) ==
  LET c0 == l0 \div Radix
      m1 == l1 + c0
      c1 == m1 \div Radix
  IN  <<l0 % Radix, m1 % Radix, l2 + c1>>

\* BigInt(n) for a number n that TLC can hold
Big(n) == Norm(n, 0, 0)

BAdd(a, b) == Norm(a[1] + b[1], a[2] + b[2], a[3] + b[3])

BSub(a, b) == Norm(a[1] - b[1], a[2] - b[2], a[3] - b[3])

BLt(a, b) ==
  \/ a[3] < b[3]
  \/ a[3] = b[3] /\ a[2] < b[2]
  \/ a[3] = b[3] /\ a[2] = b[2] /\ a[1] < b[1]

BLe(a, b) == ~BLt(b, a)

BGt(a, b) == BLt(b, a)

\* a << s
RECURSIVE BShl(_, _)
BShl(a, s) ==
  IF s >= LimbBits
    THEN BShl(<<0, a[1], a[2] + a[3] * Radix>>, s - LimbBits)
    ELSE LET p == 2^(LimbBits - s)
             q == 2^s
         IN  << (a[1] % p) * q,
                (a[2] % p) * q + (a[1] \div p),
                a[3] * q + (a[2] \div p) >>

\* a >> s (arithmetic: rounds toward minus infinity, as bigint >> does)
RECURSIVE BShr(_, _)
BShr(a, s) ==
  IF s >= LimbBits
    THEN BShr(<<a[2], a[3] % Radix, a[3] \div Radix>>, s - LimbBits)
    ELSE LET p == 2^(LimbBits - s)
             q == 2^s
         IN  << (a[1] \div q) + (a[2] % q) * p,
                (a[2] \div q) + (a[3] % q) * p,
                a[3] \div q >>

\* bitwise and / or of two integers in two's complement
RECURSIVE IntAnd(_, _)
IntAnd(x, y) ==
  IF x = 0 \/ y = 0 THEN 0
  ELSE IF x = -1 THEN y
  ELSE IF y = -1 THEN x
  ELSE (x % 2) * (y % 2) + 2 * IntAnd(x \div 2, y \div 2)

RECURSIVE IntOr(_, _)
IntOr(x, y) ==
  IF x = 0 THEN y
  ELSE IF y = 0 THEN x
  ELSE IF x = -1 \/ y = -1 THEN -1
  ELSE (IF x % 2 = 1 \/ y % 2 = 1 THEN 1 ELSE 0) + 2 * IntOr(x \div 2, y \div 2)

BAnd(a, b) == <<IntAnd(a[1], b[1]), IntAnd(a[2], b[2]), IntAnd(a[3], b[3])>>

BOr(a, b) == <<IntOr(a[1], b[1]), IntOr(a[2], b[2]), IntOr(a[3], b[3])>>

Zero == Big(0)

One == Big(1)

---------------------------------------------------------------------------
(* the bit layout, index.ts lines 1-20 *)

\* 1609459200000 = 1534899 * 2^20 + 946176
CUSTOM_EPOCH == BAdd(BShl(Big(1534899), 20), Big(946176))

TIMESTAMP_BITS == 41

FLAG_BITS == 1

MACHINE_ID_BITS == 10

SEQUENCE_BITS == 12

RANDOMNESS_BITS == MACHINE_ID_BITS + SEQUENCE_BITS

MACHINE_ID_SHIFT == SEQUENCE_BITS

FLAG_SHIFT == MACHINE_ID_BITS + SEQUENCE_BITS

TIMESTAMP_SHIFT == FLAG_SHIFT + FLAG_BITS

MAX_TIMESTAMP == BSub(BShl(One, TIMESTAMP_BITS), One)

MAX_MACHINE_ID == BSub(BShl(One, MACHINE_ID_BITS), One)

MAX_SEQUENCE == BSub(BShl(One, SEQUENCE_BITS), One)

MAX_RANDOMNESS == BSub(BShl(One, RANDOMNESS_BITS), One)


---------------------------------------------------------------------------
(* inputs *)

\* the last millisecond whose offset from the custom epoch fits in 41 bits
LastMilli == BAdd(CUSTOM_EPOCH, MAX_TIMESTAMP)

\* readings of Date.now(): the Unix epoch, the custom epoch and the
\* millisecond after it, the last representable millisecond and the one
\* after that
Times == { Zero, CUSTOM_EPOCH, BAdd(CUSTOM_EPOCH, One), LastMilli, BAdd(LastMilli, One) }

\* constructor arguments: both ends of the range and the first value
\* outside it on either side
MachineIds == { Big(-1), Zero, MAX_MACHINE_ID, BAdd(MAX_MACHINE_ID, One) }

\* the four bytes crypto.getRandomValues fills in: each byte all zeros or
\* all ones, and the second byte (bits 23..16 of the 32-bit value) also with
\* bit 22 alone and with the bits below bit 22 alone
RandomBytes == { <<b0, b1, b2, b3>> : b0 \in {0, 255}, b1 \in {0, 63, 64, 255},
                                      b2 \in {0, 255}, b3 \in {0, 255} }

\* the calls a client still makes on a generator after it failed with
\* "Timestamp exceeds maximum allowed value."
MaxOverflowCalls == 2

\* a returned id may be looked at again when its sequence field is within
\* this distance of either end of the sequence range
MaxWatchSeq == 0

\* generate() calls per generator where two generators run side by side
MaxPairCalls == 3

\* generate() calls per caller where two callers share one generator
MaxRaceCalls == 1

NoId == <<>>

NoProbe == [op |-> "none"]

NoCall == [op |-> "none", inst |-> 0, input |-> Zero,
           result |-> "none", id |-> NoId]

NoPick == [inst |-> 0, id |-> NoId, again |-> FALSE, other |-> FALSE]

---------------------------------------------------------------------------
(* state *)

VARIABLES
  gen,        \* gen[i]: the fields of generator i, for every constructed i
  spin,       \* spin[i]: currentTimestamp of the waitNextMillis generator i is in
  last,       \* the most recent constructor / generator call and its outcome
  issued,     \* issued[i]: the id returned by the call that left generator i
              \* its present lastTimestamp and sequence, if that call returned one
  picked,     \* an id returned earlier, the generator that returned it, and
              \* whether that generator or another one returned it again
  overflows,  \* calls that failed with the timestamp overflow error
  calls,      \* calls[i]: generate() calls made on generator i, or by caller
              \* i of a shared generator, where counted
  probe,      \* the most recent extractIdComponents / isValidSnowflakeId call
  frames,     \* frames[c]: where caller c stands inside generate() and the
              \* timestamp it holds, where callers share a generator
  mutex       \* whether callers that share a generator call generate() one
              \* at a time

vars == <<gen, spin, last, issued, picked, overflows, calls, probe, frames, mutex>>

---------------------------------------------------------------------------
(* SnowflakeGenerator *)

\* the range check with its lower bound forgotten
ValidMachineIdUpperOnly(machineId) == ~BGt(machineId, MAX_MACHINE_ID)

\* index.ts line 27, negated: the constructor's argument is accepted
ValidMachineId(machineId) ==
  ~(BLt(machineId, Zero) \/ BGt(machineId, MAX_MACHINE_ID))

\* index.ts lines 23-30
Construct(i, machineId) ==
  /\ i \notin DOMAIN gen
  /\ IF ValidMachineId(machineId)
       THEN /\ gen' = gen @@ (i :> [machineId |-> machineId,
                                    lastTimestamp |-> Zero,
                                    sequence |-> Zero])
            /\ last' = [op |-> "construct", inst |-> i,
                        input |-> machineId, result |-> "ok", id |-> NoId]
       ELSE /\ gen' = gen
            /\ last' = [op |-> "construct", inst |-> i,
                        input |-> machineId, result |-> "InvalidMachineId",
                        id |-> NoId]
  /\ probe' = NoProbe
  /\ UNCHANGED <<spin, issued, overflows>>

\* the comparison with its operands the wrong way round
MovedBackwardsSwapped(timestamp, lastTimestamp) == BLt(lastTimestamp, timestamp)

\* the comparison with <= for <
MovedBackwardsOrEqual(timestamp, lastTimestamp) == BLe(timestamp, lastTimestamp)

\* index.ts line 35
MovedBackwards(timestamp, lastTimestamp) == BLt(timestamp, lastTimestamp)

\* the increment left out
NextSequenceStuck(sequence) == BAnd(sequence, MAX_SEQUENCE)

\* the increment masked with the machine id mask
NextSequenceWrongMask(sequence) == BAnd(BAdd(sequence, One), MAX_MACHINE_ID)

\* index.ts line 40
NextSequence(sequence) == BAnd(BAdd(sequence, One), MAX_SEQUENCE)

\* index.ts line 50 (and line 79)
AdjustedTimestamp(timestamp) == BSub(timestamp, CUSTOM_EPOCH)

\* the test with >= for >
ExceedsMaxTimestampOrEqual(adjustedTimestamp) == BLe(MAX_TIMESTAMP, adjustedTimestamp)

\* index.ts line 52 (and line 81)
ExceedsMaxTimestamp(adjustedTimestamp) == BGt(adjustedTimestamp, MAX_TIMESTAMP)

\* the id put together without the machine id
BackendIdNoMachine(adjustedTimestamp, machineId, sequence) ==
  LET flag == One
  IN  BOr(BOr(BShl(adjustedTimestamp, TIMESTAMP_SHIFT), BShl(flag, FLAG_SHIFT)),
          sequence)

\* the timestamp shifted by FLAG_SHIFT, onto the flag bit
BackendIdShiftedOntoFlag(adjustedTimestamp, machineId, sequence) ==
  LET flag == One
  IN  BOr(BOr(BOr(BShl(adjustedTimestamp, FLAG_SHIFT),
                  BShl(flag, FLAG_SHIFT)),
              BShl(machineId, MACHINE_ID_SHIFT)),
          sequence)

\* index.ts lines 57-63
BackendId(adjustedTimestamp, machineId, sequence) ==
  LET flag == One
  IN  BOr(BOr(BOr(BShl(adjustedTimestamp, TIMESTAMP_SHIFT),
                  BShl(flag, FLAG_SHIFT)),
              BShl(machineId, MACHINE_ID_SHIFT)),
          sequence)

\* lines 48-65 with the test of line 52 made before the write of line 48
CompleteTestsFirst(i, g, timestamp, input) ==
  LET g1 == [g EXCEPT !.lastTimestamp = timestamp]
      adjustedTimestamp == AdjustedTimestamp(timestamp)
      id == BackendId(adjustedTimestamp, g1.machineId, g1.sequence)
  IN  IF ExceedsMaxTimestamp(adjustedTimestamp)
        THEN /\ gen' = gen
             /\ last' = [op |-> "generate", inst |-> i,
                         input |-> input, result |-> "TimestampOverflow",
                         id |-> NoId]
             /\ overflows' = overflows + 1
             /\ issued' = issued
        ELSE /\ gen' = [gen EXCEPT ![i] = g1]
             /\ last' = [op |-> "generate", inst |-> i,
                         input |-> input, result |-> "ok", id |-> id]
             /\ overflows' = overflows
             /\ issued' = [j \in DOMAIN issued \cup {i} |->
                             IF j = i
                               THEN [id |-> id, timestamp |-> timestamp,
                                     sequence |-> g1.sequence]
                               ELSE issued[j]]

\* index.ts lines 48-65: the rest of generate() once timestamp is settled;
\* g holds the fields as lines 39-46 left them, input is the first reading
\* of the clock the call made
Complete(i, g, timestamp, input) ==
  LET g1 == [g EXCEPT !.lastTimestamp = timestamp]
      adjustedTimestamp == AdjustedTimestamp(timestamp)
      id == BackendId(adjustedTimestamp, g1.machineId, g1.sequence)
  IN  /\ gen' = [gen EXCEPT ![i] = g1]
      /\ IF ExceedsMaxTimestamp(adjustedTimestamp)
           THEN /\ last' = [op |-> "generate", inst |-> i,
                            input |-> input, result |-> "TimestampOverflow",
                            id |-> NoId]
                /\ overflows' = overflows + 1
                /\ issued' = [j \in DOMAIN issued \ {i} |-> issued[j]]
           ELSE /\ last' = [op |-> "generate", inst |-> i,
                            input |-> input, result |-> "ok", id |-> id]
                /\ overflows' = overflows
                /\ issued' = [j \in DOMAIN issued \cup {i} |->
                                IF j = i
                                  THEN [id |-> id, timestamp |-> timestamp,
                                        sequence |-> g1.sequence]
                                  ELSE issued[j]]

\* index.ts lines 32-47, and lines 48-66 when the call does not have to
\* wait; timestamp is what Date.now() returns on line 33
Generate(i, timestamp) ==
  /\ i \in DOMAIN gen
  /\ i \notin DOMAIN spin
  /\ probe' = NoProbe
  /\ LET g == gen[i] IN
       IF MovedBackwards(timestamp, g.lastTimestamp)
         THEN /\ last' = [op |-> "generate", inst |-> i,
                          input |-> timestamp, result |-> "ClockRegression",
                          id |-> NoId]
              /\ UNCHANGED <<gen, spin, issued, overflows>>
         ELSE IF timestamp = g.lastTimestamp
           THEN LET sequence == NextSequence(g.sequence) IN
                  IF sequence = Zero
                    THEN /\ gen' = [gen EXCEPT ![i].sequence = sequence]
                         /\ spin' = spin @@ (i :> timestamp)
                         /\ last' = [op |-> "generate", inst |-> i,
                                     input |-> timestamp,
                                     result |-> "waiting", id |-> NoId]
                         /\ UNCHANGED <<issued, overflows>>
                    ELSE /\ Complete(i, [g EXCEPT !.sequence = sequence],
                                     timestamp, timestamp)
                         /\ spin' = spin
           ELSE /\ Complete(i, [g EXCEPT !.sequence = Zero],
                            timestamp, timestamp)
                /\ spin' = spin

\* the loop condition with < for <=
KeepsWaitingStrict(timestamp, currentTimestamp) == BLt(timestamp, currentTimestamp)

\* index.ts line 70: the loop of waitNextMillis goes round again
KeepsWaiting(timestamp, currentTimestamp) == BLe(timestamp, currentTimestamp)

\* index.ts lines 68-74 and then 48-66: one reading of the clock inside
\* waitNextMillis (line 69 or line 71); the call goes on when the reading
\* is past currentTimestamp
WaitNextMillis(i, timestamp) ==
  /\ i \in DOMAIN spin
  /\ IF KeepsWaiting(timestamp, spin[i])
       THEN UNCHANGED <<gen, spin, last, issued, overflows, probe>>
       ELSE /\ spin' = [j \in DOMAIN spin \ {i} |-> spin[j]]
            /\ probe' = NoProbe
            /\ Complete(i, gen[i], timestamp, spin[i])

---------------------------------------------------------------------------
(* generateFrontendSnowflakeId *)

\* index.ts lines 93-94: DataView.getUint32(0, false), big-endian
GetUint32(randomBytes) ==
  BAdd(BShl(Big(randomBytes[1]), 24),
       Big(randomBytes[2] * 65536 + randomBytes[3] * 256 + randomBytes[4]))

\* index.ts line 95
Randomness(randomValue) == BAnd(randomValue, MAX_RANDOMNESS)

\* the timestamp shifted by FLAG_SHIFT, onto the flag bit
FrontendIdShiftedOntoFlag(adjustedTimestamp, randomness) ==
  LET flag == Zero
  IN  BOr(BOr(BShl(adjustedTimestamp, FLAG_SHIFT), BShl(flag, FLAG_SHIFT)),
          randomness)

\* index.ts lines 86, 97-98
FrontendId(adjustedTimestamp, randomness) ==
  LET flag == Zero
  IN  BOr(BOr(BShl(adjustedTimestamp, TIMESTAMP_SHIFT), BShl(flag, FLAG_SHIFT)),
          randomness)

\* index.ts lines 77-101; timestamp is what Date.now() returns on line 78,
\* randomBytes what crypto.getRandomValues fills in on line 90
generateFrontendSnowflakeId(timestamp, randomBytes) ==
  LET adjustedTimestamp == AdjustedTimestamp(timestamp)
      randomValue == GetUint32(randomBytes)
      randomness == Randomness(randomValue)
  IN  IF ExceedsMaxTimestamp(adjustedTimestamp)
        THEN [result |-> "TimestampOverflow", id |-> NoId]
        ELSE [result |-> "ok", id |-> FrontendId(adjustedTimestamp, randomness)]

Frontend(timestamp, randomBytes) ==
  LET r == generateFrontendSnowflakeId(timestamp, randomBytes)
  IN  /\ last' = [op |-> "frontend", inst |-> 0,
                  input |-> timestamp, result |-> r.result, id |-> r.id,
                  rand |-> randomBytes]
      /\ probe' = NoProbe
      /\ UNCHANGED <<gen, spin, issued, overflows>>

---------------------------------------------------------------------------
(* extractIdComponents and isValidSnowflakeId *)

\* 8.64e15, the largest time value a Date holds
\* = 7858 * 2^40 + 35885 * 2^20 + 786432
MaxDate == BAdd(BShl(Big(7858), 40), BAdd(BShl(Big(35885), 20), Big(786432)))

InvalidDate == <<>>

\* index.ts lines 113, 122: new Date(Number(timestamp)), a Date being its
\* time value in milliseconds.  Number() is exact below 2^53 and a Date is
\* invalid beyond 8.64e15 < 2^53 on either side.
ToDate(timestamp) ==
  IF BLt(MaxDate, timestamp) \/ BLt(timestamp, BSub(Zero, MaxDate))
    THEN InvalidDate
    ELSE timestamp

\* index.ts lines 104-105 and 132-133
DecodedTimestamp(id) ==
  BAdd(BAnd(BShr(id, TIMESTAMP_SHIFT), MAX_TIMESTAMP), CUSTOM_EPOCH)

\* index.ts lines 107 and 135
DecodedFlag(id) == BAnd(BShr(id, FLAG_SHIFT), One)

\* index.ts lines 111 and 150
DecodedRandomness(id) == BAnd(id, MAX_RANDOMNESS)

\* index.ts lines 119 and 157
DecodedMachineId(id) == BAnd(BShr(id, MACHINE_ID_SHIFT), MAX_MACHINE_ID)

\* index.ts lines 120 and 158
DecodedSequence(id) == BAnd(id, MAX_SEQUENCE)

\* index.ts lines 103-128
extractIdComponents(id) ==
  LET timestamp == DecodedTimestamp(id)
      flag == DecodedFlag(id)
  IN  IF flag = Zero
        THEN [timestamp |-> ToDate(timestamp), source |-> "frontend",
              randomness |-> DecodedRandomness(id)]
        ELSE [timestamp |-> ToDate(timestamp), source |-> "backend",
              machineId |-> DecodedMachineId(id),
              sequence |-> DecodedSequence(id)]

\* the comparison with >= for >
InFutureOrNow(timestamp, now) == BLe(now, timestamp)

\* index.ts line 144
InFuture(timestamp, now) == BGt(timestamp, now)

\* index.ts lines 130-176; now is what Date.now() returns on line 143.
\* Nothing in the try block can throw on a bigint, so the catch of lines
\* 172-175 is never entered.
isValidSnowflakeId(id, now) ==
  LET timestamp == DecodedTimestamp(id)
      flag == DecodedFlag(id)
  IN  IF flag # Zero /\ flag # One THEN FALSE
      ELSE IF InFuture(timestamp, now) THEN FALSE
      ELSE IF flag = Zero
        THEN LET randomness == DecodedRandomness(id) IN
               IF BLt(randomness, Zero) \/ BGt(randomness, MAX_RANDOMNESS)
                 THEN FALSE ELSE TRUE
        ELSE LET machineId == DecodedMachineId(id)
                 sequence == DecodedSequence(id)
             IN  IF \/ BLt(machineId, Zero)
                    \/ BGt(machineId, MAX_MACHINE_ID)
                    \/ BLt(sequence, Zero)
                    \/ BGt(sequence, MAX_SEQUENCE)
                   THEN FALSE ELSE TRUE

\* a caller decodes an id
Extract(id) ==
  /\ probe' = [op |-> "extract", id |-> id, now |-> Zero,
               out |-> extractIdComponents(id)]
  /\ UNCHANGED <<gen, spin, last, issued, overflows>>

\* a caller validates an id, the clock reading now
Validate(id, now) ==
  /\ probe' = [op |-> "isValid", id |-> id, now |-> now,
               out |-> isValidSnowflakeId(id, now)]
  /\ UNCHANGED <<gen, spin, last, issued, overflows>>

---------------------------------------------------------------------------
(* what the clients of the specifications below do *)

\* the most recent call handed its caller an id
Handed == last.result = "ok" /\ last.id # NoId

\* the ids a caller of a long-running generator looks at again
Watched(id) ==
  LET sequence == BAnd(id, MAX_SEQUENCE)
  IN  \/ BLe(sequence, Big(MaxWatchSeq))
      \/ BLe(BSub(MAX_SEQUENCE, Big(MaxWatchSeq)), sequence)

\* the ids that may become the remembered one in SpecUniq
WatchedLow(id) == BLe(BAnd(id, MAX_SEQUENCE), Big(MaxWatchSeq))

\* the client gives up on generators that keep failing with the overflow
CallsOn == overflows < MaxOverflowCalls

\* picked after a step of generator i: when the step returned the id that
\* is remembered, note who returned it; otherwise the id it returned may
\* become the remembered one if none is yet and may(id) allows it
Remember(i, may(_)) ==
  IF last'.op = "generate" /\ last'.result = "ok"
    THEN IF picked.id = last'.id
           THEN picked' = IF picked.inst = i
                            THEN [picked EXCEPT !.again = TRUE]
                            ELSE [picked EXCEPT !.other = TRUE]
           ELSE \/ picked' = picked
                \/ /\ picked = NoPick
                   /\ may(last'.id)
                   /\ picked' = [inst |-> i, id |-> last'.id,
                                 again |-> FALSE, other |-> FALSE]
    ELSE picked' = picked

EveryId(id) == TRUE

Init ==
  /\ gen = <<>>
  /\ spin = <<>>
  /\ last = NoCall
  /\ issued = <<>>
  /\ picked = NoPick
  /\ overflows = 0
  /\ calls = <<0, 0>>
  /\ probe = NoProbe
  /\ frames = <<>>
  /\ mutex = TRUE

---------------------------------------------------------------------------
(* Spec: one generator, the ids it hands out decoded and validated *)

Next ==
  \/ \E m \in MachineIds : Construct(1, m) /\ UNCHANGED <<picked, calls, frames, mutex>>
  \/ \E t \in Times : CallsOn /\ Generate(1, t) /\ UNCHANGED <<picked, calls, frames, mutex>>
  \/ \E t \in Times : WaitNextMillis(1, t) /\ UNCHANGED <<picked, calls, frames, mutex>>
  \/ Handed /\ Watched(last.id) /\ Extract(last.id) /\ UNCHANGED <<picked, calls, frames, mutex>>
  \/ \E now \in Times :
       Handed /\ Watched(last.id) /\ Validate(last.id, now)
         /\ UNCHANGED <<picked, calls, frames, mutex>>

Spec == Init /\ [][Next]_vars

---------------------------------------------------------------------------
(* SpecUniq: one generator, one of its earlier ids remembered *)

NextUniq ==
  \/ \E m \in MachineIds : Construct(1, m) /\ UNCHANGED <<picked, calls, frames, mutex>>
  \/ \E t \in Times :
       CallsOn /\ Generate(1, t) /\ Remember(1, WatchedLow)
         /\ UNCHANGED <<calls, frames, mutex>>
  \/ \E t \in Times :
       WaitNextMillis(1, t) /\ Remember(1, WatchedLow)
         /\ UNCHANGED <<calls, frames, mutex>>

SpecUniq == Init /\ [][NextUniq]_vars

---------------------------------------------------------------------------
(* SpecPair: two generators side by side, a few calls on each.  No        *)
(* generator gets to sequence 4095 in MaxPairCalls calls, so none of them  *)
(* enters waitNextMillis here.                                             *)

NextPair ==
  \/ \E i \in {1, 2}, m \in MachineIds :
       Construct(i, m) /\ UNCHANGED <<picked, calls, frames, mutex>>
  \/ \E i \in {1, 2}, t \in Times :
       /\ CallsOn
       /\ calls[i] < MaxPairCalls
       /\ Generate(i, t)
       /\ Remember(i, EveryId)
       /\ calls' = [calls EXCEPT ![i] = @ + 1]
       /\ UNCHANGED <<frames, mutex>>

SpecPair == Init /\ [][NextPair]_vars

---------------------------------------------------------------------------
(* SpecCodec: the decoder and the validator on arbitrary 64-bit values *)

\* 64-bit values to decode and validate: every combination of a timestamp
\* field and a low 23 bits taken from the ends and the middle of their ranges
TimestampFields == { Zero, One, Big(2), BSub(MAX_TIMESTAMP, One), MAX_TIMESTAMP }

LowFields == { Zero, One, MAX_SEQUENCE, BAdd(MAX_SEQUENCE, One), MAX_RANDOMNESS,
               BAdd(MAX_RANDOMNESS, One), BAdd(MAX_RANDOMNESS, Big(2)),
               BSub(BShl(One, TIMESTAMP_SHIFT), One) }

AnyIds == { BOr(BShl(ts, TIMESTAMP_SHIFT), low) : ts \in TimestampFields, low \in LowFields }

NextCodec ==
  \/ \E id \in AnyIds : Extract(id) /\ UNCHANGED <<picked, calls, frames, mutex>>
  \/ \E id \in AnyIds, now \in Times :
       Validate(id, now) /\ UNCHANGED <<picked, calls, frames, mutex>>

SpecCodec == Init /\ [][NextCodec]_vars

---------------------------------------------------------------------------
(* SpecFront: the frontend factory, its ids decoded and validated *)

NextFront ==
  \/ \E t \in Times, b \in RandomBytes :
       Frontend(t, b) /\ UNCHANGED <<picked, calls, frames, mutex>>
  \/ Handed /\ Extract(last.id) /\ UNCHANGED <<picked, calls, frames, mutex>>
  \/ \E now \in Times :
       Handed /\ Validate(last.id, now) /\ UNCHANGED <<picked, calls, frames, mutex>>

SpecFront == Init /\ [][NextFront]_vars

---------------------------------------------------------------------------
(* SpecAll: one generator and the frontend factory, the clock also reading *)
(* a millisecond between the Unix epoch and the custom epoch.  The factory *)
(* keeps no state and reads none of the generator's, so its calls are all  *)
(* made before the generator is built.                                     *)

\* readings of Date.now(), among them 1970-01-01T00:00:00.001Z
AllTimes == Times \cup { One }

NextAll ==
  \/ \E m \in MachineIds :
       Construct(1, m) /\ UNCHANGED <<picked, calls, frames, mutex>>
  \/ \E t \in AllTimes :
       CallsOn /\ Generate(1, t) /\ UNCHANGED <<picked, calls, frames, mutex>>
  \/ \E t \in AllTimes :
       WaitNextMillis(1, t) /\ UNCHANGED <<picked, calls, frames, mutex>>
  \/ \E t \in AllTimes, b \in RandomBytes :
       gen = <<>> /\ Frontend(t, b) /\ UNCHANGED <<picked, calls, frames, mutex>>

SpecAll == Init /\ [][NextAll]_vars

---------------------------------------------------------------------------
(* SpecWait: one generator under a clock that does not stay at or below    *)
(* the millisecond a waiting call is waiting to pass                       *)

\* Date.now() returns a reading that ends the loop of waitNextMillis
ClockAdvances ==
  /\ 1 \in DOMAIN spin
  /\ \E t \in Times :
       /\ BLt(spin[1], t)
       /\ WaitNextMillis(1, t)
       /\ UNCHANGED <<picked, calls, frames, mutex>>

NextWait ==
  \/ \E m \in MachineIds :
       Construct(1, m) /\ UNCHANGED <<picked, calls, frames, mutex>>
  \/ \E t \in Times :
       CallsOn /\ Generate(1, t) /\ UNCHANGED <<picked, calls, frames, mutex>>
  \/ \E t \in Times :
       WaitNextMillis(1, t) /\ UNCHANGED <<picked, calls, frames, mutex>>

SpecWait == Init /\ [][NextWait]_vars /\ WF_vars(ClockAdvances)

---------------------------------------------------------------------------
(* SpecRace: two callers share generator 1 and run generate() statement by *)
(* statement, one at a time when mutex holds and interleaved when it does  *)
(* not.  The generator starts fresh, after one call, or one call short of  *)
(* the end of the sequence range.                                          *)

Callers == {1, 2}

\* fields a generator can have come to: as constructed, after one call in
\* the custom epoch's millisecond, after 4095 calls in it
RaceStart ==
  { [machineId |-> Zero, lastTimestamp |-> Zero, sequence |-> Zero],
    [machineId |-> Zero, lastTimestamp |-> CUSTOM_EPOCH, sequence |-> Zero],
    [machineId |-> Zero, lastTimestamp |-> CUSTOM_EPOCH,
     sequence |-> BSub(MAX_SEQUENCE, One)] }

InitRace ==
  /\ gen \in { (1 :> g) : g \in RaceStart }
  /\ mutex \in BOOLEAN
  /\ spin = <<>>
  /\ last = NoCall
  /\ issued = <<>>
  /\ picked = NoPick
  /\ overflows = 0
  /\ calls = <<0, 0>>
  /\ probe = NoProbe
  /\ frames = <<>>

\* caller c is through with its call
Leave(c) == frames' = [d \in DOMAIN frames \ {c} |-> frames[d]]

\* caller c goes on to the statement at pc
Goto(c, pc) == frames' = [frames EXCEPT ![c].pc = pc]

\* index.ts line 33: caller c enters generate() and reads the clock
RaceBegin(c, timestamp) ==
  /\ c \notin DOMAIN frames
  /\ mutex => frames = <<>>
  /\ calls[c] < MaxRaceCalls
  /\ frames' = frames @@ (c :> [pc |-> "check", timestamp |-> timestamp,
                                 input |-> timestamp])
  /\ calls' = [calls EXCEPT ![c] = @ + 1]
  /\ UNCHANGED <<gen, spin, last, issued, picked, overflows, probe, mutex>>

\* index.ts lines 35-65 but for the loop of waitNextMillis: caller c
\* executes the statement it stands at
RaceStep(c) ==
  /\ c \in DOMAIN frames
  /\ frames[c].pc # "wait"
  /\ LET f == frames[c]
         g == gen[1]
         ends(result, id) ==
           /\ last' = [op |-> "generate", inst |-> 1, input |-> f.input,
                       result |-> result, id |-> id, caller |-> c]
           /\ Leave(c)
     IN  CASE f.pc = "check" ->      \* line 35
                IF MovedBackwards(f.timestamp, g.lastTimestamp)
                  THEN ends("ClockRegression", NoId)
                         /\ UNCHANGED <<gen, overflows>>
                  ELSE Goto(c, "branch") /\ UNCHANGED <<gen, last, overflows>>
           [] f.pc = "branch" ->     \* line 39
                /\ Goto(c, IF f.timestamp = g.lastTimestamp
                             THEN "increment" ELSE "reset")
                /\ UNCHANGED <<gen, last, overflows>>
           [] f.pc = "increment" ->  \* line 40
                /\ gen' = [gen EXCEPT ![1].sequence = NextSequence(g.sequence)]
                /\ Goto(c, "wrapped")
                /\ UNCHANGED <<last, overflows>>
           [] f.pc = "wrapped" ->    \* line 41
                /\ Goto(c, IF g.sequence = Zero THEN "wait" ELSE "store")
                /\ UNCHANGED <<gen, last, overflows>>
           [] f.pc = "reset" ->      \* line 45
                /\ gen' = [gen EXCEPT ![1].sequence = Zero]
                /\ Goto(c, "store")
                /\ UNCHANGED <<last, overflows>>
           [] f.pc = "store" ->      \* line 48
                /\ gen' = [gen EXCEPT ![1].lastTimestamp = f.timestamp]
                /\ Goto(c, "pack")
                /\ UNCHANGED <<last, overflows>>
           [] f.pc = "pack" ->       \* lines 50-65
                LET adjustedTimestamp == AdjustedTimestamp(f.timestamp)
                IN  IF ExceedsMaxTimestamp(adjustedTimestamp)
                      THEN /\ ends("TimestampOverflow", NoId)
                           /\ overflows' = overflows + 1
                           /\ gen' = gen
                      ELSE /\ ends("ok", BackendId(adjustedTimestamp,
                                                   g.machineId, g.sequence))
                           /\ UNCHANGED <<gen, overflows>>
  /\ IF frames[c].pc = "pack" THEN Remember(c, EveryId) ELSE picked' = picked
  /\ UNCHANGED <<spin, issued, calls, probe, mutex>>

\* index.ts lines 42 and 68-74: caller c, inside waitNextMillis, reads the
\* clock (line 69 or 71) and leaves the loop when the reading is past the
\* timestamp it came with
RaceWait(c, timestamp) ==
  /\ c \in DOMAIN frames
  /\ frames[c].pc = "wait"
  /\ IF KeepsWaiting(timestamp, frames[c].timestamp)
       THEN frames' = frames
       ELSE frames' = [frames EXCEPT ![c].timestamp = timestamp,
                                     ![c].pc = "store"]
  /\ UNCHANGED <<gen, spin, last, issued, picked, overflows, calls, probe, mutex>>

NextRace ==
  \/ \E c \in Callers, t \in Times : RaceBegin(c, t)
  \/ \E c \in Callers : RaceStep(c)
  \/ \E c \in Callers, t \in Times : RaceWait(c, t)

SpecRace == InitRace /\ [][NextRace]_vars

---------------------------------------------------------------------------
(* SpecOrder: two generators and the frontend factory; the first id any of *)
(* them returns is remembered with the time it was made at, and one more   *)
(* call is made.  Each generator starts fresh or one call short of the end *)
(* of the sequence range in the custom epoch's millisecond.                *)

OrderStart ==
  { [machineId |-> m, lastTimestamp |-> ts[1], sequence |-> ts[2]] :
      m \in { Zero, MAX_MACHINE_ID },
      ts \in { <<Zero, Zero>>, <<CUSTOM_EPOCH, BSub(MAX_SEQUENCE, One)>> } }

\* random bytes whose first two bytes are both all zeros or both all ones
OrderBytes == { b \in RandomBytes : b[1] = b[2] }

InitOrder ==
  /\ gen \in { (1 :> g1) @@ (2 :> g2) : g1 \in OrderStart, g2 \in OrderStart }
  /\ spin = <<>>
  /\ last = NoCall
  /\ issued = <<>>
  /\ picked = NoPick
  /\ overflows = 0
  /\ calls = <<0, 0>>
  /\ probe = NoProbe
  /\ frames = <<>>
  /\ mutex = TRUE

\* no id is remembered yet, or the remembered one is the only one so far
OneMore ==
  /\ CallsOn
  /\ picked = NoPick \/ (Handed /\ last.id = picked.id)

\* the first id returned is remembered, with the time it was made at
Keep ==
  picked' = IF picked = NoPick /\ last'.result = "ok"
              THEN [inst |-> last'.inst, id |-> last'.id,
                    again |-> FALSE, other |-> FALSE,
                    time |-> IF last'.op = "frontend"
                               THEN last'.input
                               ELSE gen'[last'.inst].lastTimestamp]
              ELSE picked

NextOrder ==
  \/ \E i \in {1, 2}, t \in Times :
       OneMore /\ Generate(i, t) /\ Keep /\ UNCHANGED <<calls, frames, mutex>>
  \/ \E i \in {1, 2}, t \in Times :
       WaitNextMillis(i, t) /\ Keep /\ UNCHANGED <<calls, frames, mutex>>
  \/ \E t \in Times, b \in OrderBytes :
       OneMore /\ Frontend(t, b) /\ Keep /\ UNCHANGED <<calls, frames, mutex>>

SpecOrder == InitOrder /\ [][NextOrder]_vars

---------------------------------------------------------------------------
(* SpecRecover: one generator; when a call fails with the clock regression *)
(* error the id the generator returned last is remembered until the call   *)
(* after the next call that gets past line 35 has begun                    *)

\* picked after a step of generate() that is not inside waitNextMillis
NoteCall(i) ==
  picked' =
    IF last'.result = "ClockRegression"
      THEN [inst |-> i,
            id |-> IF i \in DOMAIN issued THEN issued[i].id ELSE NoId,
            again |-> FALSE, other |-> FALSE, done |-> FALSE]
    ELSE IF picked = NoPick \/ picked.done THEN NoPick
    ELSE IF last'.result = "waiting" THEN picked
    ELSE [picked EXCEPT !.done = TRUE, !.again = (last'.result = "ok" /\ last'.id = picked.id)]

\* picked after a reading of the clock inside waitNextMillis
NoteWait(i) ==
  picked' =
    IF i \in DOMAIN spin' \/ picked = NoPick THEN picked
    ELSE [picked EXCEPT !.done = TRUE, !.again = (last'.result = "ok" /\ last'.id = picked.id)]

NextRecover ==
  \/ \E m \in MachineIds :
       Construct(1, m) /\ UNCHANGED <<picked, calls, frames, mutex>>
  \/ \E t \in Times :
       CallsOn /\ Generate(1, t) /\ NoteCall(1)
         /\ UNCHANGED <<calls, frames, mutex>>
  \/ \E t \in Times :
       WaitNextMillis(1, t) /\ NoteWait(1)
         /\ UNCHANGED <<calls, frames, mutex>>

SpecRecover == Init /\ [][NextRecover]_vars

---------------------------------------------------------------------------
(* the claims *)

\* this step is a constructor call
Constructing == last' # last /\ last'.op = "construct"

\* this step is generator i reading the clock on line 33 of a new call
Calling(i) ==
  /\ last' # last
  /\ last'.op = "generate"
  /\ last'.inst = i
  /\ i \notin DOMAIN spin

\* this step is generator i leaving waitNextMillis
WaitOver(i) == i \in DOMAIN spin /\ i \notin DOMAIN spin'

\* this step is generator i returning an id
Returning(i) ==
  /\ last' # last
  /\ last'.op = "generate"
  /\ last'.inst = i
  /\ last'.result = "ok"

\* the millisecond an id was made from: its bits from bit 23 up, as the
\* signed offset from the custom epoch that generate() shifted there
MilliOf(id) == BAdd(BShr(id, 23), CUSTOM_EPOCH)

\* C1: no id that one generator returned is returned by it again, whatever
\* the clock reads from call to call (the remembered id is any id the
\* generator returned with a sequence of at most MaxWatchSeq)
C1_Unique == picked.again = FALSE

\* C1: an id with sequence 0 is remembered and the call that used up the
\* sequence numbers of that id's millisecond has returned a different id
C1_Witness ==
  /\ picked.inst = 1
  /\ Handed
  /\ last.op = "generate"
  /\ MilliOf(picked.id) = last.input
  /\ BLt(last.input, gen[1].lastTimestamp)
  /\ gen[1].sequence = Zero
  /\ last.id # picked.id

C3_ClockRegression ==
  [][\A i \in DOMAIN gen :
       (Calling(i) /\ BLt(last'.input, gen[i].lastTimestamp)) =>
         /\ last'.result = "ClockRegression"
         /\ last'.id = NoId
         /\ gen'[i] = gen[i]
         /\ spin' = spin
         /\ issued' = issued
    ]_vars

\* C3: a call has failed with the clock regression error on a generator
\* that had handed out ids in a later millisecond
C3_Witness ==
  /\ last.op = "generate"
  /\ last.result = "ClockRegression"
  /\ 1 \in DOMAIN issued
  /\ BLt(last.input, gen[1].lastTimestamp)
  /\ gen[1].sequence # Zero

\* C4: a call that reads the millisecond in lastTimestamp with sequence
\* below 4095 returns an id one sequence number after the previous id, in
\* the same millisecond and of the same machine; with sequence 4095 it
\* waits, and when the wait is over it returns an id of sequence 0 made
\* from the later millisecond, which lastTimestamp now holds
C4_SameMillisecond ==
  [][\A i \in DOMAIN gen :
       /\ ( /\ Calling(i)
            /\ last'.input = gen[i].lastTimestamp
            /\ gen[i].sequence # Big(4095) ) =>
            /\ gen'[i] = [gen[i] EXCEPT !.sequence = BAdd(gen[i].sequence, One)]
            /\ last'.result \in {"ok", "TimestampOverflow"}
            /\ BLe(last'.input, LastMilli) => last'.result = "ok"
            /\ last'.result = "ok" =>
                 /\ DecodedSequence(last'.id) = BAdd(gen[i].sequence, One)
                 /\ DecodedMachineId(last'.id) = gen[i].machineId
                 /\ MilliOf(last'.id) = gen[i].lastTimestamp
                 /\ i \in DOMAIN issued =>
                      /\ DecodedSequence(last'.id)
                           = BAdd(DecodedSequence(issued[i].id), One)
                      /\ DecodedMachineId(last'.id) = DecodedMachineId(issued[i].id)
                      /\ DecodedTimestamp(last'.id) = DecodedTimestamp(issued[i].id)
       /\ ( /\ Calling(i)
            /\ last'.input = gen[i].lastTimestamp
            /\ gen[i].sequence = Big(4095) ) =>
            /\ last'.result = "waiting"
            /\ i \in DOMAIN spin'
            /\ spin'[i] = last'.input
            /\ gen'[i] = [gen[i] EXCEPT !.sequence = Zero]
       /\ WaitOver(i) =>
            /\ BLt(spin[i], gen'[i].lastTimestamp)
            /\ gen'[i].sequence = Zero
            /\ last'.result \in {"ok", "TimestampOverflow"}
            /\ BLe(gen'[i].lastTimestamp, LastMilli) => last'.result = "ok"
            /\ last'.result = "ok" =>
                 /\ DecodedSequence(last'.id) = Zero
                 /\ MilliOf(last'.id) = gen'[i].lastTimestamp
    ]_vars

\* C4: a call that found sequence 4095 in the millisecond it read has
\* waited and returned an id of sequence 0 from a later millisecond
C4_Witness ==
  /\ Handed
  /\ last.op = "generate"
  /\ spin = <<>>
  /\ 1 \in DOMAIN issued
  /\ BLt(last.input, issued[1].timestamp)
  /\ DecodedSequence(last.id) = Zero

\* C5: the constructor accepts exactly the machine ids 0 .. 1023, leaving
\* a generator with lastTimestamp 0 and sequence 0, and fails for the
\* others; no generator has a machine id outside 0 .. 1023
C5_Construction ==
  /\ [](\A i \in DOMAIN gen :
          BLe(Zero, gen[i].machineId) /\ BLe(gen[i].machineId, Big(1023)))
  /\ [][Constructing =>
          IF BLe(Zero, last'.input) /\ BLe(last'.input, Big(1023))
            THEN /\ last'.result = "ok"
                 /\ DOMAIN gen' = DOMAIN gen \cup {last'.inst}
                 /\ gen'[last'.inst] = [machineId |-> last'.input,
                                        lastTimestamp |-> Zero,
                                        sequence |-> Zero]
            ELSE /\ last'.result = "InvalidMachineId"
                 /\ gen' = gen
       ]_vars

\* C5: the constructor has refused machine id 1024 and no generator exists
C5_Witness ==
  /\ last.op = "construct"
  /\ last.result = "InvalidMachineId"
  /\ last.input = Big(1024)
  /\ gen = <<>>

\* the time the most recent call made its id from
UsedTime == IF last.op = "frontend" THEN last.input ELSE gen[last.inst].lastTimestamp

\* C6: decoding an id generate() returned gives source backend, the
\* generator's machine id, its sequence after the call and the millisecond
\* the call stored in lastTimestamp
C6_BackendRoundTrip ==
  (Handed /\ last.op = "generate") =>
    LET c == extractIdComponents(last.id)
        g == gen[last.inst]
    IN  /\ c.source = "backend"
        /\ c.machineId = g.machineId
        /\ c.sequence = g.sequence
        /\ c.timestamp = g.lastTimestamp

\* the low 22 bits of the 32-bit value the random bytes spell, big-endian
Low22(randomBytes) ==
  Big((randomBytes[2] % 64) * 65536 + randomBytes[3] * 256 + randomBytes[4])

\* C7: decoding an id generateFrontendSnowflakeId() returned gives source
\* frontend, the millisecond the call read and the low 22 bits of the random
\* value; the top 10 random bits reach neither the flag nor the timestamp
C7_FrontendRoundTrip ==
  (Handed /\ last.op = "frontend") =>
    LET c == extractIdComponents(last.id)
    IN  /\ c.source = "frontend"
        /\ c.timestamp = last.input
        /\ c.randomness = Low22(last.rand)
        /\ BLe(Zero, c.randomness) /\ BLe(c.randomness, Big(4194303))
        /\ BShr(last.id, 22) = BShl(BSub(last.input, CUSTOM_EPOCH), 1)

\* C8: an id just handed out by either generator is valid when validated
\* with the clock at or after the time the generator used
C8_FreshIdValid ==
  ( /\ probe.op = "isValid"
    /\ Handed
    /\ probe.id = last.id
    /\ BLe(UsedTime, probe.now) ) => probe.out = TRUE

\* C9: isValidSnowflakeId answers, for every 64-bit id and clock reading,
\* false when ((id >> 23) & (2^41 - 1)) + CUSTOM_EPOCH is after the clock
\* reading and true otherwise
C9_ValidIffNotFuture ==
  probe.op = "isValid" =>
    ( probe.out =
        ~BLt(probe.now,
             BAdd(BAnd(BShr(probe.id, 23), BSub(BShl(One, 41), One)),
                  CUSTOM_EPOCH)) )

\* C9: the id 2^64 - 1 was validated in the very millisecond its timestamp
\* field names, and found valid
C9_Witness ==
  /\ probe.op = "isValid"
  /\ probe.id = BSub(BShl(One, 64), One)
  /\ probe.now = LastMilli
  /\ probe.out = TRUE

\* C10: an id returned by one generator is never returned by a generator
\* with a different machine id
C10_CrossMachine ==
  picked.other => gen[1].machineId = gen[2].machineId

\* C10: generator 2 has returned an id in the same millisecond and with the
\* same sequence as the remembered id of generator 1, whose machine id
\* differs, and the two ids differ
C10_Witness ==
  /\ picked.inst = 1
  /\ ~picked.other
  /\ Handed
  /\ last.op = "generate"
  /\ last.inst = 2
  /\ 1 \in DOMAIN issued
  /\ picked.id = issued[1].id
  /\ issued[1].timestamp = issued[2].timestamp
  /\ issued[1].sequence = issued[2].sequence
  /\ gen[1].machineId # gen[2].machineId

\* this step is generator i reading the clock on line 33 of a new call,
\* whatever the call did before
Begun(i) ==
  /\ i \in DOMAIN gen
  /\ i \notin DOMAIN spin
  /\ last'.op = "generate"
  /\ last'.inst = i
  /\ (last' # last \/ gen' # gen)

\* this step ends a generate() call of generator i past line 48
Settled(i) ==
  \/ Begun(i) /\ last'.result \notin {"ClockRegression", "waiting"}
  \/ WaitOver(i)

\* 2^41 - 1 < t - CUSTOM_EPOCH
OffsetTooBig(t) == BLt(BSub(BShl(One, 41), One), BSub(t, CUSTOM_EPOCH))

\* C11: a generate() call that gets past the clock regression test fails
\* with the timestamp overflow error, returning no id, exactly when the time
\* it stores in lastTimestamp (the reading of line 33, or the one that
\* ended the wait) is more than 2^41 - 1 after the custom epoch, and returns
\* an id otherwise; generateFrontendSnowflakeId() fails with that error
\* exactly when the time it reads is, and returns an id otherwise
C11_TimestampOverflow ==
  /\ [](last.op = "frontend" =>
          /\ last.result = (IF OffsetTooBig(last.input)
                              THEN "TimestampOverflow" ELSE "ok")
          /\ (last.id = NoId) = OffsetTooBig(last.input))
  /\ [][\A i \in DOMAIN gen :
          /\ Settled(i) =>
               /\ last'.result = (IF OffsetTooBig(gen'[i].lastTimestamp)
                                    THEN "TimestampOverflow" ELSE "ok")
               /\ (last'.id = NoId) = OffsetTooBig(gen'[i].lastTimestamp)
               /\ Begun(i) => gen'[i].lastTimestamp = last'.input
               /\ WaitOver(i) => BLt(spin[i], gen'[i].lastTimestamp)
          /\ (Begun(i) /\ last'.result = "TimestampOverflow") => Settled(i)
       ]_vars

\* C11: a call that read the last representable millisecond with sequence
\* 4095 has waited, read the millisecond after it, and failed with the
\* timestamp overflow error
C11_Witness ==
  /\ last.op = "generate"
  /\ last.result = "TimestampOverflow"
  /\ last.id = NoId
  /\ last.input = LastMilli
  /\ gen[1].lastTimestamp = BAdd(LastMilli, One)
  /\ gen[1].sequence = Zero

\* C12: every id either generator returns is at least 0 and below 2^64, and
\* its bits from bit 23 up are the offset of the time used from the custom
\* epoch, which lies in 0 .. 2^41 - 1
C12_Unsigned64 ==
  Handed =>
    LET offset == BSub(UsedTime, CUSTOM_EPOCH)
    IN  /\ BLe(Zero, last.id)
        /\ BLt(last.id, BShl(One, 64))
        /\ BLe(Zero, offset)
        /\ BLe(offset, BSub(BShl(One, 41), One))
        /\ BShr(last.id, 23) = offset

\* C13: a call that reads a time after lastTimestamp and returns an id
\* returns one whose decoded sequence is 0 and whose decoded timestamp is
\* the time read, and leaves lastTimestamp at that time and sequence at 0
C13_NewMillisecond ==
  [][\A i \in DOMAIN gen :
       ( /\ Begun(i)
         /\ BLt(gen[i].lastTimestamp, last'.input)
         /\ last'.result = "ok" ) =>
         /\ extractIdComponents(last'.id).sequence = Zero
         /\ extractIdComponents(last'.id).timestamp = last'.input
         /\ gen'[i].lastTimestamp = last'.input
         /\ gen'[i].sequence = Zero
    ]_vars

\* generator 1 is inside waitNextMillis
Spinning == 1 \in DOMAIN spin

\* C14: a call that is waiting for the millisecond after t gets out of the
\* wait when the clock comes to read a later millisecond, and then returns
\* an id or fails with the timestamp overflow error; it gets out on no
\* other reading: a reading at or before t, also one before lastTimestamp,
\* changes nothing and raises no clock regression error
C14_BusyWait ==
  /\ (Spinning ~> ~Spinning)
  /\ [][Spinning =>
          /\ last'.result # "ClockRegression"
          /\ WaitOver(1) =>
               /\ BLt(spin[1], gen'[1].lastTimestamp)
               /\ last'.result \in {"ok", "TimestampOverflow"}
               /\ last'.input = spin[1]
          /\ ~WaitOver(1) => UNCHANGED <<gen, spin, last, issued>>
       ]_vars

\* C14: a call that read the custom epoch's millisecond with sequence 4095
\* has waited until the clock read the last representable millisecond and
\* returned an id made from it
C14_Witness ==
  /\ ~Spinning
  /\ Handed
  /\ last.op = "generate"
  /\ last.input = CUSTOM_EPOCH
  /\ gen[1].lastTimestamp = LastMilli
  /\ gen[1].sequence = Zero

\* C17: a generator's lastTimestamp never decreases, its sequence is always
\* in 0 .. 4095, its machine id never changes, and its lastTimestamp is at
\* least the decoded timestamp of the id it returned last (hence, as
\* lastTimestamp never decreases, of every id it returned)
C17_StateInvariant ==
  /\ [](\A i \in DOMAIN gen :
          /\ BLe(Zero, gen[i].sequence) /\ BLe(gen[i].sequence, Big(4095))
          /\ i \in DOMAIN issued =>
               BLe(extractIdComponents(issued[i].id).timestamp,
                   gen[i].lastTimestamp))
  /\ [][\A i \in DOMAIN gen :
          /\ BLe(gen[i].lastTimestamp, gen'[i].lastTimestamp)
          /\ gen'[i].machineId = gen[i].machineId
       ]_vars

\* C18: a call that fails with the timestamp overflow error has changed the
\* generator: lastTimestamp is the out-of-range time the call used and
\* sequence was incremented (same millisecond) or reset (new millisecond);
\* lastTimestamp stays out of range from then on, and every call that then
\* reads a time in range fails with the clock regression error
C18_OverflowFrame ==
  [][\A i \in DOMAIN gen :
       /\ (Settled(i) /\ last'.result = "TimestampOverflow") =>
            /\ gen'[i] # gen[i]
            /\ OffsetTooBig(gen'[i].lastTimestamp)
            /\ Begun(i) =>
                 /\ gen'[i].lastTimestamp = last'.input
                 /\ gen'[i].sequence =
                      IF last'.input = gen[i].lastTimestamp
                        THEN BAdd(gen[i].sequence, One) ELSE Zero
            /\ WaitOver(i) => gen'[i].sequence = Zero
       /\ OffsetTooBig(gen[i].lastTimestamp) =>
            /\ OffsetTooBig(gen'[i].lastTimestamp)
            /\ (Begun(i) /\ ~OffsetTooBig(last'.input)) =>
                 /\ last'.result = "ClockRegression"
                 /\ last'.id = NoId
    ]_vars

\* C18: after a call failed with the timestamp overflow error, a call that
\* read the last representable millisecond has failed with the clock
\* regression error
C18_Witness ==
  /\ overflows > 0
  /\ last.op = "generate"
  /\ last.result = "ClockRegression"
  /\ last.input = LastMilli
  /\ OffsetTooBig(gen[1].lastTimestamp)

\* C15: two generate() calls on one generator return the same id only when
\* the callers do not take turns (the state of the witness); callers that
\* run generate() one at a time never get the same id twice
C15_CriticalSection ==
  (picked.again \/ picked.other) => ~mutex

\* C15: without mutual exclusion both callers have finished their call on
\* the shared generator and hold the same id
C15_Witness ==
  /\ ~mutex
  /\ frames = <<>>
  /\ calls[1] > 0 /\ calls[2] > 0
  /\ picked.other
  /\ Handed
  /\ last.id = picked.id
  /\ last.caller # picked.inst

\* 0 <= t - CUSTOM_EPOCH <= 2^41 - 1
OffsetFits(t) == BLe(CUSTOM_EPOCH, t) /\ ~OffsetTooBig(t)

\* C16: of two ids made by any two producers (a generator with any machine
\* id and sequence, or the frontend factory with any randomness) at
\* different times whose offsets from the custom epoch are in 0 .. 2^41 - 1,
\* the one made at the earlier time is the smaller number
C16_CrossProducerOrder ==
  ( /\ picked # NoPick
    /\ Handed
    /\ OffsetFits(picked.time)
    /\ OffsetFits(UsedTime) ) =>
    /\ BLt(picked.time, UsedTime) => BLt(picked.id, last.id)
    /\ BLt(UsedTime, picked.time) => BLt(last.id, picked.id)

\* C16: a generator with machine id 1023 returned the id of sequence 4095 in
\* the custom epoch's millisecond, and the frontend factory, one
\* millisecond later, an id with randomness 0
C16_Witness ==
  /\ picked # NoPick
  /\ picked.inst = 1
  /\ picked.time = CUSTOM_EPOCH
  /\ DecodedMachineId(picked.id) = MAX_MACHINE_ID
  /\ DecodedSequence(picked.id) = MAX_SEQUENCE
  /\ Handed
  /\ last.op = "frontend"
  /\ last.input = BAdd(CUSTOM_EPOCH, One)
  /\ DecodedRandomness(last.id) = Zero
  /\ BLt(picked.id, last.id)

\* generator i has failed with the clock regression error and has not got
\* past line 35 since
Recovering(i) == picked # NoPick /\ picked.inst = i /\ ~picked.done

=============================================================================
